---------------------------- MODULE Spec2Model ----------------------------
(***************************************************************************)
(* FIA-Othello: the game loop of src/src/game.rs (Game: reset, tick_ai,    *)
(* make_move, take_statistics, the per-frame update) and the search engine *)
(* of src/src/ai.rs (calculate_best_move, negamax, calculate_heuristic,    *)
(* get_board_after_move).  The Referee, the Board and the Agent worker are *)
(* not part of the sources at hand; they are modelled from spec.md         *)
(* sections 3, 4.1 and 4.4.                                                *)
(***************************************************************************)
EXTENDS Integers, Sequences, FiniteSets, TLC

(***************************************************************************)
(* Board, Cell, Player (spec.md section 3)                                 *)
(***************************************************************************)
SIZE == 8

Black == "Black"
White == "White"
Empty == "Empty"
Player == {Black, White}

opponent(p) == IF p = Black THEN White ELSE Black

Idx == 0 .. (SIZE - 1)
Pos == Idx \X Idx

\* The cell at (row, col); the grid is a sequence of rows.
Cell(board, r, c) == board[r + 1][c + 1]

\* Board::default(): the canonical start, four centre cells in the diagonal pattern.
BoardDefault ==
    [r \in 1 .. SIZE |->
        [c \in 1 .. SIZE |->
            IF <<r - 1, c - 1>> \in {<<3, 3>>, <<4, 4>>} THEN White
            ELSE IF <<r - 1, c - 1>> \in {<<3, 4>>, <<4, 3>>} THEN Black
            ELSE Empty]]

\* Row-major enumeration of the grid, the scan order of every full-board loop.
RowMajor == [i \in 1 .. (SIZE * SIZE) |-> <<(i - 1) \div SIZE, (i - 1) % SIZE>>]

(***************************************************************************)
(* Referee (spec.md section 4.1)                                           *)
(***************************************************************************)
Directions == {d \in {-1, 0, 1} \X {-1, 0, 1} : d # <<0, 0>>}

InRange(r, c) == r \in Idx /\ c \in Idx

\* Walks from (r, c) in direction (dr, dc) over contiguous opponent pieces: the
\* cells walked over when the run ends at a piece of `player`, none when it
\* ends at the edge of the board or at an empty cell.
RECURSIVE Sandwich(_, _, _, _, _, _, _)
Sandwich(board, player, r, c, dr, dc, run) ==
    IF ~InRange(r, c) THEN {}
    ELSE IF Cell(board, r, c) = opponent(player)
         THEN Sandwich(board, player, r + dr, c + dc, dr, dc, run \cup {<<r, c>>})
         ELSE IF Cell(board, r, c) = player THEN run ELSE {}

\* find_flip_cells_for_move: the flip list; the move is legal iff it is non-empty.
find_flip_cells_for_move(board, player, m) ==
    IF Cell(board, m[1], m[2]) # Empty THEN {}
    ELSE UNION {Sandwich(board, player, m[1] + d[1], m[2] + d[2], d[1], d[2], {}) :
                    d \in Directions}

\* The legal flag of find_flip_cells_for_move: the flip list is non-empty.
IsLegal(board, player, m) ==
    /\ Cell(board, m[1], m[2]) = Empty
    /\ \E d \in Directions :
           Sandwich(board, player, m[1] + d[1], m[2] + d[2], d[1], d[2], {}) # {}

\* find_all_valid_moves: the legal cells in row-major order.
find_all_valid_moves(board, player) ==
    SelectSeq(RowMajor, LAMBDA m : IsLegal(board, player, m))

\* apply_move: sets the move cell and every flip cell to Taken(player).
apply_move(board, player, m, flips) ==
    [r \in 1 .. SIZE |->
        [c \in 1 .. SIZE |->
            IF <<r - 1, c - 1>> = m \/ <<r - 1, c - 1>> \in flips
            THEN player ELSE board[r][c]]]

\* count_pieces (game.rs) over the full grid.
count_pieces(board) ==
    <<Cardinality({x \in Pos : Cell(board, x[1], x[2]) = Black}),
      Cardinality({x \in Pos : Cell(board, x[1], x[2]) = White})>>

\* check_outcome: strictly greater count wins, equal counts tie.
check_outcome(board) ==
    LET n == count_pieces(board)
    IN  IF n[1] > n[2] THEN <<"Won", Black>>
        ELSE IF n[2] > n[1] THEN <<"Won", White>>
        ELSE <<"Tie">>


(***************************************************************************)
(* Search engine (ai.rs)                                                   *)
(***************************************************************************)
OTHELLO_WEIGHTS ==
    << <<7, 2, 5, 4, 4, 5, 2, 7>>,
       <<2, 1, 3, 3, 3, 3, 1, 2>>,
       <<5, 3, 5, 5, 5, 5, 3, 5>>,
       <<4, 3, 5, 6, 6, 5, 3, 4>>,
       <<4, 3, 5, 6, 6, 5, 3, 4>>,
       <<5, 3, 5, 5, 5, 5, 3, 5>>,
       <<2, 1, 3, 3, 3, 3, 1, 2>>,
       <<7, 2, 5, 4, 4, 5, 2, 7>> >>

\* The depth calculate_best_move passes to negamax.
RootDepth == 8

\* Option<f32>: None, Some(v).  Every score is a sum of integer weights.
None == <<>>
Some(v) == <<v>>
unwrap(o) == o[1]

\* A variant of negate that keeps the sign.
negate_identity(value) == value

\* negate: Some(v) -> Some(-v), None -> None.
negate(value) == IF value = None THEN None ELSE Some(-unwrap(value))

\* calculate_weighted_piece_positions: the weights of the cells Taken(player),
\* summed over the grid in row-major order from the i-th cell on.
RECURSIVE WeightedFrom(_, _, _)
WeightedFrom(board, player, i) ==
    IF i > SIZE * SIZE THEN 0
    ELSE LET m == RowMajor[i]
         IN  (IF Cell(board, m[1], m[2]) = player
              THEN OTHELLO_WEIGHTS[m[1] + 1][m[2] + 1] ELSE 0)
             + WeightedFrom(board, player, i + 1)

\* A variant of calculate_weighted_piece_positions that scores Black's cells
\* for either player.
calculate_weighted_piece_positions_black(board, player) == WeightedFrom(board, Black, 1)

\* calculate_weighted_piece_positions
calculate_weighted_piece_positions(board, player) == WeightedFrom(board, player, 1)

\* A variant of calculate_heuristic that scores the position for the opponent.
calculate_heuristic_opponent(board, player) ==
    calculate_weighted_piece_positions(board, opponent(player))

\* calculate_heuristic
calculate_heuristic(board, player) == calculate_weighted_piece_positions(board, player)

\* A variant of get_board_after_move that places the piece and flips nothing.
get_board_after_move_no_flips(board, player, m) ==
    [board EXCEPT ![m[1] + 1][m[2] + 1] = player]

\* get_board_after_move: a clone with the move applied when it is legal, then
\* the move cell and the flip cells written once more.
get_board_after_move(board, player, m) ==
    LET flip_cells == find_flip_cells_for_move(board, player, m)
        applied == IF flip_cells # {}
                   THEN apply_move(board, player, m, flip_cells)
                   ELSE board
        placed == [applied EXCEPT ![m[1] + 1][m[2] + 1] = player]
    IN  [r \in 1 .. SIZE |->
            [c \in 1 .. SIZE |->
                IF <<r - 1, c - 1>> \in flip_cells THEN player ELSE placed[r][c]]]

\* The arguments of one call of negamax.
NegamaxCall(board, player, depth, pass_flag, alpha, beta) ==
    [board |-> board, player |-> player, depth |-> depth, pass_flag |-> pass_flag,
     alpha |-> alpha, beta |-> beta]

\* A variant of PassCall that leaves the pass flag unset.
PassCall_flag_unset(board, player, depth, current_alpha, beta) ==
    NegamaxCall(board, opponent(player), depth - 1, FALSE, current_alpha, beta)

\* A variant of PassCall that passes the depth on as it is.
PassCall_same_depth(board, player, depth, current_alpha, beta) ==
    NegamaxCall(board, opponent(player), depth, TRUE, current_alpha, beta)

\* negamax, line 64: the call made when the player to move has to pass.
PassCall(board, player, depth, current_alpha, beta) ==
    NegamaxCall(board, opponent(player), depth - 1, TRUE, current_alpha, beta)

\* negamax, lines 71-78: the call made for the legal move m.
ChildCall(board, player, depth, m, current_alpha, beta) ==
    NegamaxCall(get_board_after_move(board, player, m), opponent(player), depth - 1,
                FALSE, negate(beta), negate(current_alpha))

\* A variant of Improves that also replaces the running best by an equal value.
Improves_or_equal(val, best) == best = None \/ val >= unwrap(best)

\* negamax, lines 80 and 84, and calculate_best_move, line 32: the running
\* best is replaced on strict improvement only.
Improves(val, best) == best = None \/ val > unwrap(best)

\* negamax, line 88: the cutoff.
Cutoff(current_alpha, beta) ==
    current_alpha # None /\ beta # None /\ unwrap(current_alpha) >= unwrap(beta)

\* negamax.  The result is the returned value together with the calls the node
\* made itself, in order, and two records of the recursion below the node:
\* edges, the pairs <<depth of a node, depth of a call it made>>, and nesting,
\* the number of calls nested below the node.
RECURSIVE negamax_node(_), negamax_loop(_, _, _, _, _, _, _, _)
negamax_node(call) ==
    IF call.depth = 0
    THEN [value |-> calculate_heuristic(call.board, call.player), calls |-> <<>>,
          edges |-> {}, nesting |-> 0]
    ELSE LET valid_moves == find_all_valid_moves(call.board, call.player)
         IN  IF Len(valid_moves) = 0
             THEN IF call.pass_flag
                  THEN [value |-> calculate_heuristic(call.board, call.player),
                        calls |-> <<>>, edges |-> {}, nesting |-> 0]
                  ELSE LET next == PassCall(call.board, call.player, call.depth,
                                            call.alpha, call.beta)
                           ret == negamax_node(next)
                       IN  [value |-> ret.value, calls |-> <<next>>,
                            edges |-> ret.edges \cup {<<call.depth, next.depth>>},
                            nesting |-> ret.nesting + 1]
             ELSE negamax_loop(call, valid_moves, 1, None, call.alpha, <<>>, {}, 0)

\* The loop of negamax over valid_moves, from index i on.
negamax_loop(call, valid_moves, i, max, current_alpha, calls, edges, nesting) ==
    IF i > Len(valid_moves)
    THEN [value |-> unwrap(max), calls |-> calls, edges |-> edges, nesting |-> nesting]
    ELSE LET next == ChildCall(call.board, call.player, call.depth, valid_moves[i],
                               current_alpha, call.beta)
             ret == negamax_node(next)
             val == -(ret.value)
             max1 == IF Improves(val, max) THEN Some(val) ELSE max
             alpha1 == IF Improves(val, current_alpha) THEN Some(val) ELSE current_alpha
             calls1 == Append(calls, next)
             edges1 == edges \cup ret.edges \cup {<<call.depth, next.depth>>}
             nesting1 == IF ret.nesting + 1 > nesting THEN ret.nesting + 1 ELSE nesting
         IN  IF Cutoff(alpha1, call.beta)
             THEN [value |-> unwrap(max1), calls |-> calls1, edges |-> edges1,
                   nesting |-> nesting1]
             ELSE negamax_loop(call, valid_moves, i + 1, max1, alpha1, calls1, edges1,
                               nesting1)

negamax(board, player, depth, pass_flag, alpha, beta) ==
    negamax_node(NegamaxCall(board, player, depth, pass_flag, alpha, beta)).value

\* calculate_best_move, line 23-30: the call of negamax for the i-th candidate.
RootCall(board, valid_moves, player, i) ==
    NegamaxCall(get_board_after_move(board, player, valid_moves[i]), opponent(player),
                RootDepth, FALSE, None, None)

\* calculate_best_move, line 22-30: the score of the i-th candidate.
RootScore(board, valid_moves, player, i) ==
    -(negamax_node(RootCall(board, valid_moves, player, i)).value)

\* The loop of calculate_best_move, from index i on: the final max_index.
RECURSIVE best_move_loop(_, _, _, _, _, _)
best_move_loop(board, valid_moves, player, i, max, max_index) ==
    IF i > Len(valid_moves) THEN max_index
    ELSE LET val == RootScore(board, valid_moves, player, i)
         IN  IF max_index = None \/ Improves(val, max)
             THEN best_move_loop(board, valid_moves, player, i + 1, Some(val), Some(i))
             ELSE best_move_loop(board, valid_moves, player, i + 1, max, max_index)

calculate_best_move(board, valid_moves, player) ==
    valid_moves[unwrap(best_move_loop(board, valid_moves, player, 1, None, None))]

(***************************************************************************)
(* Game (game.rs)                                                          *)
(***************************************************************************)
\* Bounds of the model.
MaxResets == 1
MaxMoves == 2

\* The games the mouse clicks and the worker's free choices are drawn from: the
\* k-th move of a game of the model is the k-th move of one of these.  The
\* first one makes Black pass after eight moves, the second one is won by Black
\* and the third one by White, each with cells of the board left empty.
RecordedGames ==
    {<<<<2, 3>>, <<2, 2>>, <<4, 5>>, <<1, 3>>, <<0, 3>>, <<0, 4>>, <<1, 1>>, <<0, 2>>,
       <<2, 0>>, <<0, 0>>>>,
     <<<<2, 3>>, <<2, 2>>, <<2, 1>>, <<2, 4>>, <<4, 5>>, <<3, 5>>, <<2, 5>>, <<1, 1>>,
       <<0, 0>>>>,
     <<<<2, 3>>, <<2, 4>>, <<3, 5>>, <<2, 6>>, <<2, 5>>, <<2, 2>>, <<3, 2>>, <<4, 2>>,
       <<1, 6>>, <<0, 7>>>>}

\* Phase
Turn(p) == <<"Turn", p>>
Win(p) == <<"Win", p>>
Tie == <<"Tie">>

\* The out-of-range coordinate a MoveResult carries when no move was produced,
\* and an in-range coordinate that is never a legal move (a centre cell).
NoMove == <<SIZE, SIZE>>
OccupiedMove == <<3, 3>>

\* The answers of a worker that does not keep to its contract: out of range in
\* both coordinates or in one, or in range and not legal.
FaultMoves == {NoMove, <<0, SIZE>>, OccupiedMove}

\* The number of moves made on a board since the start of its game.
Ply(b) == count_pieces(b)[1] + count_pieces(b)[2] - 4

\* The cells a click or a free choice of the worker can name on a board.
ClickCells(b) == {g[Ply(b) + 1] : g \in {h \in RecordedGames : Len(h) > Ply(b)}}

\* PlayerOptions::default()
PlayerOptionsDefault ==
    [ai_enabled |-> FALSE, ai_type |-> "Random", ai_recursion_depth |-> 1]

VARIABLES
    board,                  \* Game.board
    current_phase,          \* Game.current_phase
    valid_moves,            \* Game.valid_moves
    player_options,         \* Game.player_options
    should_take_statistics, \* Game.options.should_take_statistics
    awaiting_ai_move,       \* Game.awaiting_ai_move
    move_requests,          \* the request channel, UI thread -> worker
    move_results,           \* the result channel, worker -> UI thread
    is_board_untouched,     \* Game.is_board_untouched
    can_take_statistics,    \* Game.can_take_statistics
    statistics,             \* number of data added to Game.statistics
    panicked,               \* an assert! of the UI thread has failed
    resets,                 \* number of restarts so far
    tick_outcome,           \* what the step did, when it was a call of tick_ai
    s_call,                 \* a call of the search engine: function and arguments
    s_ret,                  \* what the call returned, None while it has not
    move_request_sender,    \* Game.move_request_sender is Some
    agent_pc,               \* the worker thread: "recv", "search" or "exited"
    agent_request,          \* the request the worker is searching on, or None
    drop_pc,                \* the UI thread: "alive", "join" (in Drop) or "dropped"
    user_pc                 \* the user: "acting", or "away" / "away_stale" once the
                            \* user has stopped clicking (with a stale answer due)

gameVars ==
    <<board, current_phase, valid_moves, player_options, should_take_statistics,
      awaiting_ai_move, move_requests, move_results, is_board_untouched,
      can_take_statistics, statistics, panicked, resets, tick_outcome>>

searchVars == <<s_call, s_ret>>

threadVars == <<move_request_sender, agent_pc, agent_request, drop_pc>>

vars == <<gameVars, searchVars, threadVars, user_pc>>

\* The fields make_move and take_statistics read and write, as one value.
GameFields ==
    [board |-> board, current_phase |-> current_phase, valid_moves |-> valid_moves,
     is_board_untouched |-> is_board_untouched,
     can_take_statistics |-> can_take_statistics, statistics |-> statistics]

\* take_statistics: one datum, only while statistics can still be taken.
take_statistics(g) ==
    IF g.can_take_statistics
    THEN [g EXCEPT !.statistics = @ + 1, !.can_take_statistics = FALSE]
    ELSE g

\* The phase a finished game is left in.
EndPhase(b) ==
    LET outcome == check_outcome(b)
    IN  IF outcome[1] = "Won" THEN Win(outcome[2]) ELSE Tie

\* A variant of next_turn that hands the turn to the opponent after every move.
next_turn_no_pass(g, player) ==
    [g EXCEPT !.valid_moves = find_all_valid_moves(g.board, opponent(player)),
              !.current_phase = Turn(opponent(player))]

\* A variant of next_turn that ends the game as soon as the opponent has to pass.
next_turn_early_end(g, player) ==
    LET oppMoves == find_all_valid_moves(g.board, opponent(player))
    IN  IF Len(oppMoves) > 0
        THEN [g EXCEPT !.valid_moves = oppMoves, !.current_phase = Turn(opponent(player))]
        ELSE take_statistics([g EXCEPT !.valid_moves = oppMoves,
                                       !.current_phase = EndPhase(g.board)])

\* A variant of next_turn that asks first whether the mover can move again.
next_turn_mover_first(g, player) ==
    LET oppMoves == find_all_valid_moves(g.board, opponent(player))
        ownMoves == find_all_valid_moves(g.board, player)
    IN  IF Len(ownMoves) > 0
        THEN [g EXCEPT !.valid_moves = ownMoves]
        ELSE IF Len(oppMoves) = 0
             THEN take_statistics([g EXCEPT !.valid_moves = oppMoves,
                                            !.current_phase = EndPhase(g.board)])
             ELSE [g EXCEPT !.valid_moves = oppMoves,
                            !.current_phase = Turn(opponent(player))]

\* A variant of next_turn that, when the opponent has to pass, leaves the
\* opponent's (empty) list of moves in the cache.
next_turn_stale_cache(g, player) ==
    LET oppMoves == find_all_valid_moves(g.board, opponent(player))
        ownMoves == find_all_valid_moves(g.board, player)
    IN  IF Len(oppMoves) > 0
        THEN [g EXCEPT !.valid_moves = oppMoves, !.current_phase = Turn(opponent(player))]
        ELSE IF Len(ownMoves) = 0
             THEN take_statistics([g EXCEPT !.valid_moves = ownMoves,
                                            !.current_phase = EndPhase(g.board)])
             ELSE [g EXCEPT !.valid_moves = oppMoves]

\* make_move, after the move is applied: who moves next, or how the game ended.
next_turn(g, player) ==
    LET oppMoves == find_all_valid_moves(g.board, opponent(player))
        ownMoves == find_all_valid_moves(g.board, player)
    IN  IF Len(oppMoves) > 0
        THEN [g EXCEPT !.valid_moves = oppMoves, !.current_phase = Turn(opponent(player))]
        ELSE IF Len(ownMoves) = 0
             THEN take_statistics([g EXCEPT !.valid_moves = ownMoves,
                                            !.current_phase = EndPhase(g.board)])
             ELSE [g EXCEPT !.valid_moves = ownMoves]

\* make_move, the end of the legal branch: the first move of a game.
first_move_made(g) ==
    IF g.is_board_untouched
    THEN [g EXCEPT !.can_take_statistics = TRUE, !.is_board_untouched = FALSE]
    ELSE g

\* A variant of make_move that hands the turn on and leaves the board as it is.
make_move_keeps_board(g, next_move, player) ==
    LET flips == find_flip_cells_for_move(g.board, player, next_move)
    IN  IF flips # {}
        THEN [ok |-> TRUE, g |-> first_move_made(next_turn(g, player))]
        ELSE [ok |-> FALSE, g |-> g]

\* A variant of make_move that refuses a move that flips a single piece.
make_move_needs_two(g, next_move, player) ==
    LET flips == find_flip_cells_for_move(g.board, player, next_move)
        g1 == [g EXCEPT !.board = apply_move(g.board, player, next_move, flips)]
    IN  IF Cardinality(flips) > 1
        THEN [ok |-> TRUE, g |-> first_move_made(next_turn(g1, player))]
        ELSE [ok |-> FALSE, g |-> g]

\* A variant of make_move that applies the move to any empty cell.
make_move_unchecked(g, next_move, player) ==
    LET flips == find_flip_cells_for_move(g.board, player, next_move)
        g1 == [g EXCEPT !.board = apply_move(g.board, player, next_move, flips)]
    IN  IF Cell(g.board, next_move[1], next_move[2]) = Empty
        THEN [ok |-> TRUE, g |-> first_move_made(next_turn(g1, player))]
        ELSE [ok |-> FALSE, g |-> g]

\* make_move: the returned flag and the fields afterwards.
make_move(g, next_move, player) ==
    LET flips == find_flip_cells_for_move(g.board, player, next_move)
        g1 == [g EXCEPT !.board = apply_move(g.board, player, next_move, flips)]
    IN  IF flips # {}
        THEN [ok |-> TRUE, g |-> first_move_made(next_turn(g1, player))]
        ELSE [ok |-> FALSE, g |-> g]

SetGameFields(g) ==
    /\ board' = g.board
    /\ current_phase' = g.current_phase
    /\ valid_moves' = g.valid_moves
    /\ is_board_untouched' = g.is_board_untouched
    /\ can_take_statistics' = g.can_take_statistics
    /\ statistics' = g.statistics

\* Default for Game, followed by reset().
GameInit ==
    /\ board = BoardDefault
    /\ current_phase = Turn(Black)
    /\ valid_moves = find_all_valid_moves(BoardDefault, Black)
    /\ player_options = [p \in Player |-> PlayerOptionsDefault]
    /\ should_take_statistics = TRUE
    /\ awaiting_ai_move = FALSE
    /\ move_requests = <<>>
    /\ move_results = <<>>
    /\ is_board_untouched = TRUE
    /\ can_take_statistics = TRUE
    /\ statistics = 0
    /\ panicked = FALSE
    /\ resets = 0
    /\ tick_outcome = "none"
    /\ move_request_sender = TRUE
    /\ agent_pc = "recv"
    /\ agent_request = None
    /\ drop_pc = "alive"
    /\ user_pc = "acting"

\* No call of the search engine is followed in the specifications of the game.
NoCall ==
    [fn |-> "none", board |-> BoardDefault, valid_moves |-> <<>>, player |-> Black,
     depth |-> 0, pass_flag |-> FALSE, alpha |-> None, beta |-> None]

Init ==
    /\ GameInit
    /\ s_call = NoCall
    /\ s_ret = None

\* A variant of Reset that keeps the cached valid moves of the game before.
Reset_stale_moves ==
    /\ UNCHANGED <<searchVars, user_pc, threadVars>>
    /\ tick_outcome' = "none"
    /\ ~panicked
    /\ resets < MaxResets
    /\ resets' = resets + 1
    /\ board' = BoardDefault
    /\ current_phase' = Turn(Black)
    /\ is_board_untouched' = TRUE
    /\ can_take_statistics' = TRUE
    /\ UNCHANGED <<valid_moves, player_options, should_take_statistics, awaiting_ai_move,
                   move_requests, move_results, statistics, panicked>>

\* reset(), from the "Restart Game" button or the auto restart after a game.
Reset ==
    /\ UNCHANGED <<searchVars, user_pc, threadVars>>
    /\ tick_outcome' = "none"
    /\ ~panicked
    /\ resets < MaxResets
    /\ resets' = resets + 1
    /\ board' = BoardDefault
    /\ current_phase' = Turn(Black)
    /\ valid_moves' = find_all_valid_moves(BoardDefault, Black)
    /\ is_board_untouched' = TRUE
    /\ can_take_statistics' = TRUE
    /\ UNCHANGED <<player_options, should_take_statistics, awaiting_ai_move,
                   move_requests, move_results, statistics, panicked>>

\* The "Enable AI" checkbox of a player, with ai_setting_changed().
ToggleAi(p) ==
    /\ UNCHANGED <<searchVars, user_pc, threadVars>>
    /\ tick_outcome' = "none"
    /\ ~panicked
    /\ player_options' =
           [player_options EXCEPT ![p].ai_enabled = ~player_options[p].ai_enabled]
    /\ can_take_statistics' = IF ~is_board_untouched THEN FALSE ELSE can_take_statistics
    /\ UNCHANGED <<board, current_phase, valid_moves, should_take_statistics,
                   awaiting_ai_move, move_requests, move_results, is_board_untouched,
                   statistics, panicked, resets>>

\* The "Take Statistics" checkbox.
ToggleTakeStatistics ==
    /\ UNCHANGED <<searchVars, user_pc, threadVars>>
    /\ tick_outcome' = "none"
    /\ ~panicked
    /\ should_take_statistics' = ~should_take_statistics
    /\ UNCHANGED <<board, current_phase, valid_moves, player_options,
                   awaiting_ai_move, move_requests, move_results, is_board_untouched,
                   can_take_statistics, statistics, panicked, resets>>

\* A variant of TickAiRequest that sends a request on every tick, awaited or not.
TickAiRequest_unguarded(player) ==
    /\ UNCHANGED <<searchVars, user_pc, threadVars>>
    /\ tick_outcome' = "request"
    /\ ~panicked
    /\ current_phase = Turn(player)
    /\ player_options[player].ai_enabled
    /\ move_request_sender
    /\ awaiting_ai_move' = TRUE
    /\ move_requests' =
           Append(move_requests,
                  [board |-> board, player |-> player,
                   algorithm_choice |-> player_options[player].ai_type,
                   recursion_depth |-> player_options[player].ai_recursion_depth])
    /\ UNCHANGED <<board, current_phase, valid_moves, player_options,
                   should_take_statistics, move_results, is_board_untouched,
                   can_take_statistics, statistics, panicked, resets>>

\* tick_ai, not awaiting: ask the worker for the next move.
TickAiRequest(player) ==
    /\ UNCHANGED <<searchVars, user_pc, threadVars>>
    /\ tick_outcome' = "request"
    /\ ~panicked
    /\ current_phase = Turn(player)
    /\ player_options[player].ai_enabled
    /\ ~awaiting_ai_move
    /\ move_request_sender
    /\ awaiting_ai_move' = TRUE
    /\ move_requests' =
           Append(move_requests,
                  [board |-> board, player |-> player,
                   algorithm_choice |-> player_options[player].ai_type,
                   recursion_depth |-> player_options[player].ai_recursion_depth])
    /\ UNCHANGED <<board, current_phase, valid_moves, player_options,
                   should_take_statistics, move_results, is_board_untouched,
                   can_take_statistics, statistics, panicked, resets>>

\* A variant of DisableAi that leaves the options as they are.
DisableAi_skipped(options, player) == options

\* tick_ai, line 166: the player's AI is switched off.
DisableAi(options, player) == [options EXCEPT ![player].ai_enabled = FALSE]

\* A variant of TickAiReceive that goes on waiting after a stale result.
TickAiReceive_keeps_waiting(player) ==
    /\ UNCHANGED <<searchVars, user_pc, threadVars>>
    /\ ~panicked
    /\ current_phase = Turn(player)
    /\ player_options[player].ai_enabled
    /\ awaiting_ai_move
    /\ move_results # <<>>
    /\ LET move_result == Head(move_results)
           row == move_result.next_move[1]
           col == move_result.next_move[2]
           made == make_move(GameFields, move_result.next_move, player)
       IN  /\ move_results' = Tail(move_results)
           /\ IF row < SIZE /\ col < SIZE
              THEN IF move_result.board = board /\ move_result.player = player
                   THEN IF made.ok
                        THEN /\ SetGameFields(made.g)
                             /\ awaiting_ai_move' = FALSE
                             /\ tick_outcome' = "applied"
                             /\ UNCHANGED <<player_options, panicked>>
                        ELSE \* assert!(self.make_move(..)) fails
                             /\ panicked' = TRUE
                             /\ tick_outcome' = "panic"
                             /\ SetGameFields(made.g)
                             /\ UNCHANGED <<player_options, awaiting_ai_move>>
                   ELSE /\ tick_outcome' = "stale"
                        /\ UNCHANGED <<board, current_phase, valid_moves,
                                       is_board_untouched, can_take_statistics,
                                       statistics, player_options, panicked,
                                       awaiting_ai_move>>
              ELSE /\ player_options' = DisableAi(player_options, player)
                   /\ awaiting_ai_move' = FALSE
                   /\ tick_outcome' = "disabled"
                   /\ UNCHANGED <<board, current_phase, valid_moves, is_board_untouched,
                                  can_take_statistics, statistics, panicked>>
    /\ UNCHANGED <<should_take_statistics, move_requests, resets>>

\* tick_ai, awaiting and a result has arrived.
TickAiReceive(player) ==
    /\ UNCHANGED <<searchVars, user_pc, threadVars>>
    /\ ~panicked
    /\ current_phase = Turn(player)
    /\ player_options[player].ai_enabled
    /\ awaiting_ai_move
    /\ move_results # <<>>
    /\ LET move_result == Head(move_results)
           row == move_result.next_move[1]
           col == move_result.next_move[2]
           made == make_move(GameFields, move_result.next_move, player)
       IN  /\ move_results' = Tail(move_results)
           /\ IF row < SIZE /\ col < SIZE
              THEN IF move_result.board = board /\ move_result.player = player
                   THEN IF made.ok
                        THEN /\ SetGameFields(made.g)
                             /\ awaiting_ai_move' = FALSE
                             /\ tick_outcome' = "applied"
                             /\ UNCHANGED <<player_options, panicked>>
                        ELSE \* assert!(self.make_move(..)) fails
                             /\ panicked' = TRUE
                             /\ tick_outcome' = "panic"
                             /\ SetGameFields(made.g)
                             /\ UNCHANGED <<player_options, awaiting_ai_move>>
                   ELSE /\ awaiting_ai_move' = FALSE
                        /\ tick_outcome' = "stale"
                        /\ UNCHANGED <<board, current_phase, valid_moves,
                                       is_board_untouched, can_take_statistics,
                                       statistics, player_options, panicked>>
              ELSE /\ player_options' = DisableAi(player_options, player)
                   /\ awaiting_ai_move' = FALSE
                   /\ tick_outcome' = "disabled"
                   /\ UNCHANGED <<board, current_phase, valid_moves, is_board_untouched,
                                  can_take_statistics, statistics, panicked>>
    /\ UNCHANGED <<should_take_statistics, move_requests, resets>>

\* update(), AI disabled for the player to move: a click on a cell that the
\* same frame found to be a valid move.
HumanClick(player, m) ==
    /\ UNCHANGED <<searchVars, user_pc, threadVars>>
    /\ tick_outcome' = "none"
    /\ ~panicked
    /\ current_phase = Turn(player)
    /\ ~player_options[player].ai_enabled
    /\ IsLegal(board, player, m)
    /\ LET made == make_move(GameFields, m, player)
       IN  /\ SetGameFields(made.g)
           /\ panicked' = ~made.ok
    /\ UNCHANGED <<player_options, should_take_statistics, awaiting_ai_move,
                   move_requests, move_results, resets>>

\* The worker's choice for a request: a legal move of the snapshot (among
\* its ClickCells), or the out-of-range coordinate when the snapshot has none.
AgentChoices(req) ==
    LET legal == find_all_valid_moves(req.board, req.player)
    IN  IF Len(legal) = 0 THEN {NoMove}
        ELSE {legal[i] : i \in 1 .. Len(legal)} \cap ClickCells(req.board)

\* Agent::run: answer the oldest request.
AgentRun ==
    /\ UNCHANGED <<searchVars, user_pc, threadVars>>
    /\ tick_outcome' = "none"
    /\ move_requests # <<>>
    /\ LET req == Head(move_requests)
       IN  \E m \in AgentChoices(req) :
               move_results' =
                   Append(move_results,
                          [board |-> req.board, player |-> req.player, next_move |-> m])
    /\ move_requests' = Tail(move_requests)
    /\ UNCHANGED <<board, current_phase, valid_moves, player_options,
                   should_take_statistics, awaiting_ai_move, is_board_untouched,
                   can_take_statistics, statistics, panicked, resets>>

\* A worker that does not keep to its contract: it answers a request with the
\* out-of-range coordinate, or with a cell that is not a legal move.
AgentFault ==
    /\ UNCHANGED <<searchVars, user_pc, threadVars>>
    /\ tick_outcome' = "none"
    /\ move_requests # <<>>
    /\ LET req == Head(move_requests)
       IN  \E m \in FaultMoves :
               move_results' =
                   Append(move_results,
                          [board |-> req.board, player |-> req.player, next_move |-> m])
    /\ move_requests' = Tail(move_requests)
    /\ UNCHANGED <<board, current_phase, valid_moves, player_options,
                   should_take_statistics, awaiting_ai_move, is_board_untouched,
                   can_take_statistics, statistics, panicked, resets>>

\* Every operation, with games of at most MaxMoves moves.
Next ==
    \/ Reset
    \/ \E p \in Player : ToggleAi(p)
    \/ ToggleTakeStatistics
    \/ \E p \in Player : TickAiRequest(p)
    \/ \E p \in Player : TickAiReceive(p) /\ Ply(board') <= MaxMoves
    \/ \E p \in Player : \E m \in ClickCells(board) : HumanClick(p, m) /\ Ply(board') <= MaxMoves
    \/ AgentRun
    \/ AgentFault

Spec == Init /\ [][Next]_vars

\* The players are set up before the first move of a game.
SetupAi(p) ==
    /\ is_board_untouched
    /\ ToggleAi(p)

\* update(), Phase::Win or Phase::Tie: the automatic restart.
AutoRestart ==
    /\ current_phase[1] # "Turn"
    /\ Reset

\* Games played to their end, restarted only when they are over.
NextPlay ==
    \/ AutoRestart
    \/ \E p \in Player : SetupAi(p)
    \/ ToggleTakeStatistics
    \/ \E p \in Player : TickAiRequest(p)
    \/ \E p \in Player : TickAiReceive(p)
    \/ \E p \in Player : \E m \in ClickCells(board) : HumanClick(p, m)
    \/ AgentRun
    \/ AgentFault

SpecPlay == Init /\ [][NextPlay]_vars

(***************************************************************************)
(* Teardown of the game and its worker thread                              *)
(***************************************************************************)
\* Agent::run, step by step: the worker takes the oldest request.  A request
\* that is queued is received whether or not the sender is still there.
AgentRecv ==
    /\ UNCHANGED <<searchVars, user_pc, move_request_sender, drop_pc>>
    /\ tick_outcome' = "none"
    /\ agent_pc = "recv"
    /\ move_requests # <<>>
    /\ agent_request' = Some(Head(move_requests))
    /\ move_requests' = Tail(move_requests)
    /\ agent_pc' = "search"
    /\ UNCHANGED <<board, current_phase, valid_moves, player_options,
                   should_take_statistics, awaiting_ai_move, move_results,
                   is_board_untouched, can_take_statistics, statistics, panicked,
                   resets>>

\* The worker's answer to any request: one of AgentChoices, or the first legal
\* move of the snapshot when the snapshot is of none of the recorded games.
AgentAnswers(req) ==
    IF AgentChoices(req) # {} THEN AgentChoices(req)
    ELSE {find_all_valid_moves(req.board, req.player)[1]}

\* Agent::run, step by step: the search is over and its result is sent.
AgentSend ==
    /\ UNCHANGED <<searchVars, user_pc, move_request_sender, drop_pc>>
    /\ tick_outcome' = "none"
    /\ agent_pc = "search"
    /\ LET req == unwrap(agent_request)
       IN  \E m \in AgentAnswers(req) :
               move_results' =
                   Append(move_results,
                          [board |-> req.board, player |-> req.player, next_move |-> m])
    /\ agent_request' = None
    /\ agent_pc' = "recv"
    /\ UNCHANGED <<board, current_phase, valid_moves, player_options,
                   should_take_statistics, awaiting_ai_move, move_requests,
                   is_board_untouched, can_take_statistics, statistics, panicked,
                   resets>>

\* Agent::run: the request channel is empty and its sender is gone, so the
\* worker leaves its loop and the thread ends.
AgentExit ==
    /\ UNCHANGED <<gameVars, searchVars, user_pc, move_request_sender, agent_request, drop_pc>>
    /\ agent_pc = "recv"
    /\ move_requests = <<>>
    /\ ~move_request_sender
    /\ agent_pc' = "exited"

\* A variant of DropSender that leaves the sender in place.
DropSender_kept ==
    /\ UNCHANGED <<gameVars, searchVars, user_pc, move_request_sender, agent_pc, agent_request>>
    /\ drop_pc = "alive"
    /\ drop_pc' = "join"

\* drop(), line 126: the request sender is dropped.
DropSender ==
    /\ UNCHANGED <<gameVars, searchVars, user_pc, agent_pc, agent_request>>
    /\ drop_pc = "alive"
    /\ move_request_sender' = FALSE
    /\ drop_pc' = "join"

\* drop(), line 129-132: join returns once the worker thread has ended.
DropJoin ==
    /\ UNCHANGED <<gameVars, searchVars, user_pc, move_request_sender, agent_pc, agent_request>>
    /\ drop_pc = "join"
    /\ agent_pc = "exited"
    /\ drop_pc' = "dropped"

\* A game of at most MaxMoves moves that is dropped at any moment.
NextShutdown ==
    \/ drop_pc = "alive" /\ \E p \in Player : ToggleAi(p)
    \/ drop_pc = "alive" /\ \E p \in Player : TickAiRequest(p)
    \/ drop_pc = "alive" /\ \E p \in Player : TickAiReceive(p) /\ Ply(board') <= MaxMoves
    \/ drop_pc = "alive" /\ \E p \in Player : \E m \in ClickCells(board) :
                                HumanClick(p, m) /\ Ply(board') <= MaxMoves
    \/ AgentRecv
    \/ AgentSend
    \/ AgentExit
    \/ DropSender
    \/ DropJoin

\* The two threads are scheduled: the worker's steps and the return of join
\* are taken when they stay possible.
SpecShutdown ==
    /\ Init
    /\ [][NextShutdown]_vars
    /\ WF_vars(AgentRecv)
    /\ WF_vars(AgentSend)
    /\ WF_vars(AgentExit)
    /\ WF_vars(DropJoin)

(***************************************************************************)
(* The AI's turn while the user does nothing                               *)
(***************************************************************************)
\* An answer is due that is not for the position of the game: a request
\* queued or being searched, or a result unread, for another board or player.
StalePending ==
    LET due == {move_requests[i] : i \in 1 .. Len(move_requests)}
                   \cup {agent_request[i] : i \in 1 .. Len(agent_request)}
        unread == {move_results[i] : i \in 1 .. Len(move_results)}
    IN  \E x \in due \cup unread : x.board # board \/ current_phase # Turn(x.player)

\* From now on the user leaves the window alone: no click, no restart, no
\* change of a setting.
UserStops ==
    /\ UNCHANGED <<searchVars, threadVars>>
    /\ tick_outcome' = "none"
    /\ user_pc = "acting"
    /\ user_pc' = IF StalePending THEN "away_stale" ELSE "away"
    /\ UNCHANGED <<board, current_phase, valid_moves, player_options,
                   should_take_statistics, awaiting_ai_move, move_requests,
                   move_results, is_board_untouched, can_take_statistics,
                   statistics, panicked, resets>>

\* A game of at most MaxMoves moves by the user and the AI, then the frames
\* of update() and the worker alone, for one more move.
NextProgress ==
    \/ user_pc = "acting" /\ \E p \in Player : ToggleAi(p)
    \/ user_pc = "acting" /\ \E p \in Player : \E m \in ClickCells(board) :
                                 HumanClick(p, m) /\ Ply(board') <= MaxMoves
    \/ UserStops
    \/ \E p \in Player : TickAiRequest(p)
    \/ \E p \in Player : TickAiReceive(p) /\ Ply(board') <= MaxMoves + 1
    \/ AgentRecv
    \/ AgentSend

\* update() runs frame after frame (it ends with request_repaint), and the
\* worker thread is scheduled.
SpecProgress ==
    /\ Init
    /\ [][NextProgress]_vars
    /\ WF_vars(\E p \in Player : TickAiRequest(p))
    /\ WF_vars(\E p \in Player : TickAiReceive(p) /\ Ply(board') <= MaxMoves + 1)
    /\ WF_vars(AgentRecv)
    /\ WF_vars(AgentSend)

(***************************************************************************)
(* Calls of the search engine on bounded inputs                            *)
(***************************************************************************)
MaxPattern == 1
MaxHoles == 4
MaxDepth == 2
WindowBound == 100

\* The cells left empty in the input boards.
HoleCells == {<<0, 0>>, <<0, 1>>, <<1, 0>>, <<0, 7>>, <<3, 3>>, <<7, 4>>}

\* A full board in the k-th colouring, with the cells of holes emptied.
PatternBoard(k, holes) ==
    [r \in 1 .. SIZE |->
        [c \in 1 .. SIZE |->
            IF <<r - 1, c - 1>> \in holes THEN Empty
            ELSE IF ((r - 1) * (k + 1) + (c - 1) * (2 * k + 1) + (r - 1) * (c - 1)) % 3 = 0
                 THEN Black ELSE White]]

SearchBoards ==
    {PatternBoard(k, holes) :
        k \in 0 .. MaxPattern,
        holes \in {h \in SUBSET HoleCells : Cardinality(h) <= MaxHoles}}

Windows ==
    {<<None, None>>, <<None, Some(WindowBound)>>, <<Some(-WindowBound), Some(WindowBound)>>,
     <<Some(WindowBound), None>>}

NegamaxCalls ==
    {[fn |-> "negamax", board |-> b, valid_moves |-> <<>>, player |-> p, depth |-> d,
      pass_flag |-> f, alpha |-> w[1], beta |-> w[2]] :
        b \in SearchBoards \cup {BoardDefault}, p \in Player, d \in 0 .. MaxDepth,
        f \in BOOLEAN, w \in Windows}

\* calculate_best_move is called with the legal moves of the player, of which
\* there is at least one.  depth is the recursion_depth of the MoveRequest the
\* caller holds (the default of the player's options); calculate_best_move has
\* no parameter that takes it.
BestMoveCalls ==
    {c \in {[fn |-> "calculate_best_move", board |-> b,
             valid_moves |-> find_all_valid_moves(b, p), player |-> p,
             depth |-> PlayerOptionsDefault.ai_recursion_depth,
             pass_flag |-> FALSE, alpha |-> None, beta |-> None] :
                b \in SearchBoards, p \in Player} :
        Len(c.valid_moves) > 0}

InitSearch ==
    /\ GameInit
    /\ s_call \in NegamaxCalls \cup BestMoveCalls
    /\ s_ret = None

\* The call of negamax returns.
RunNegamax ==
    /\ s_call.fn = "negamax"
    /\ s_ret = None
    /\ s_ret' = Some(negamax_node(NegamaxCall(s_call.board, s_call.player, s_call.depth,
                                              s_call.pass_flag, s_call.alpha, s_call.beta)))
    /\ UNCHANGED <<gameVars, threadVars, user_pc, s_call>>

\* The call of calculate_best_move returns.
RunBestMove ==
    /\ s_call.fn = "calculate_best_move"
    /\ s_ret = None
    /\ s_ret' = Some(calculate_best_move(s_call.board, s_call.valid_moves, s_call.player))
    /\ UNCHANGED <<gameVars, threadVars, user_pc, s_call>>

NextSearch ==
    \/ RunNegamax
    \/ RunBestMove

SpecSearch == InitSearch /\ [][NextSearch]_vars

(***************************************************************************)
(* Properties of the game                                                  *)
(***************************************************************************)
HasLegalMove(b, p) == \E m \in Pos : IsLegal(b, p, m)

GameOver == current_phase[1] \in {"Win", "Tie"}

\* The step is tick_ai(p) receiving a result that is stale: its snapshot is not
\* the current board, or its player is not the player to move.
ReceivesStale(p) ==
    /\ TickAiReceive(p)
    /\ Head(move_results).board # board \/ Head(move_results).player # p

\* The step is tick_ai(p) receiving a result whose coordinate is out of range.
ReceivesOutOfRange(p) ==
    /\ TickAiReceive(p)
    /\ Head(move_results).next_move[1] >= SIZE \/ Head(move_results).next_move[2] >= SIZE

\* C1: when tick_ai receives a stale result, whatever coordinate it carries,
\* the board, the phase, the cached valid moves and the AI options of both
\* players are left as they were.
StaleResultDiscarded ==
    [][\A p \in Player :
           ReceivesStale(p) =>
               UNCHANGED <<board, current_phase, valid_moves, player_options>>]_vars

\* C3: the phase is Win or Tie only if neither player has a legal move on the
\* board, and then it is Win(Black) iff Black has strictly more pieces than
\* White, Win(White) iff White has strictly more, and Tie iff the counts are
\* equal.
DoublePassTermination ==
    GameOver =>
        LET n == count_pieces(board)
        IN  /\ ~HasLegalMove(board, Black)
            /\ ~HasLegalMove(board, White)
            /\ (current_phase = Win(Black)) <=> (n[1] > n[2])
            /\ (current_phase = Win(White)) <=> (n[2] > n[1])
            /\ (current_phase = Tie) <=> (n[1] = n[2])

\* A game has ended with cells of the board left empty.
EndedBeforeFull ==
    /\ current_phase = Win(White)
    /\ \E x \in Pos : Cell(board, x[1], x[2]) = Empty

\* C4: the player whose turn it is has a legal move on the board, and every
\* request in the channel names a board and a player with a legal move.
MoverHasLegalMove ==
    /\ \A p \in Player : current_phase = Turn(p) => HasLegalMove(board, p)
    /\ \A i \in 1 .. Len(move_requests) :
           Len(find_all_valid_moves(move_requests[i].board, move_requests[i].player)) > 0

\* After a move the opponent had to pass, and tick_ai has asked the worker for
\* a move of the player who moves again.
RequestAfterPass ==
    \E p \in Player :
        /\ current_phase = Turn(p)
        /\ ~HasLegalMove(board, opponent(p))
        /\ move_requests # <<>>
        /\ Head(move_requests).board = board
        /\ Head(move_requests).player = p

\* C9: make_move with a move for which find_flip_cells_for_move finds nothing
\* to flip returns false and leaves the board, the phase, the cached valid
\* moves and the statistics flags as they were.
IllegalMoveRejected ==
    \A p \in Player : \A m \in Pos :
        find_flip_cells_for_move(board, p, m) = {} =>
            make_move(GameFields, m, p) = [ok |-> FALSE, g |-> GameFields]

\* tick_ai has called make_move with a move that is not legal, in a game
\* under way.
IllegalMoveTried ==
    /\ tick_outcome = "panic"
    /\ panicked
    /\ ~is_board_untouched

\* C10: when tick_ai receives a result whose coordinate is out of range, the
\* board and the phase are unchanged, the AI of the player whose turn it is is
\* disabled, awaiting_ai_move is cleared and the options of the other player
\* are unchanged.
SentinelDisablesAi ==
    [][\A p \in Player :
           ReceivesOutOfRange(p) =>
               /\ board' = board
               /\ current_phase' = current_phase
               /\ ~player_options'[p].ai_enabled
               /\ ~awaiting_ai_move'
               /\ player_options'[opponent(p)] = player_options[opponent(p)]]_vars

\* tick_ai has just disabled the AI of the player to move, in a game under
\* way in which the other player's AI is enabled.
AiDisabledBySentinel ==
    \E p \in Player :
        /\ tick_outcome = "disabled"
        /\ current_phase = Turn(p)
        /\ ~player_options[p].ai_enabled
        /\ player_options[opponent(p)].ai_enabled
        /\ ~awaiting_ai_move
        /\ ~is_board_untouched

(***************************************************************************)
(* Properties of the search engine                                         *)
(***************************************************************************)
\* The call of the named function has returned.
Returned(fn) == s_call.fn = fn /\ s_ret # None

\* The arguments of the call of negamax that is followed.
TheCall ==
    NegamaxCall(s_call.board, s_call.player, s_call.depth, s_call.pass_flag,
                s_call.alpha, s_call.beta)

HasMoves(call) == Len(find_all_valid_moves(call.board, call.player)) > 0

\* The player to move has to pass, and the player before did not.
IsPassNode(call) == call.depth > 0 /\ ~HasMoves(call) /\ ~call.pass_flag

\* The horizon is reached, or both players have to pass.
IsLeaf(call) == call.depth = 0 \/ (~HasMoves(call) /\ call.pass_flag)

\* The loop of the node has stopped before its last legal move.
IsCutNode(call) ==
    /\ call.depth > 0
    /\ HasMoves(call)
    /\ Len(negamax_node(call).calls) < Len(find_all_valid_moves(call.board, call.player))

\* Every call made below a call of negamax, the call included.
RECURSIVE Visited(_)
Visited(call) ==
    LET calls == negamax_node(call).calls
    IN  {call} \cup UNION {Visited(calls[i]) : i \in 1 .. Len(calls)}

\* negamax with the cutoff removed: every legal move of a node is expanded.
RECURSIVE exhaustive_node(_), exhaustive_loop(_, _, _, _, _)
exhaustive_node(call) ==
    IF call.depth = 0
    THEN calculate_heuristic(call.board, call.player)
    ELSE LET legal == find_all_valid_moves(call.board, call.player)
         IN  IF Len(legal) = 0
             THEN IF call.pass_flag
                  THEN calculate_heuristic(call.board, call.player)
                  ELSE exhaustive_node(PassCall(call.board, call.player, call.depth,
                                                call.alpha, call.beta))
             ELSE exhaustive_loop(call, legal, 1, None, call.alpha)

exhaustive_loop(call, legal, i, max, current_alpha) ==
    IF i > Len(legal) THEN unwrap(max)
    ELSE LET val == -exhaustive_node(ChildCall(call.board, call.player, call.depth,
                                               legal[i], current_alpha, call.beta))
             max1 == IF Improves(val, max) THEN Some(val) ELSE max
             alpha1 == IF Improves(val, current_alpha) THEN Some(val) ELSE current_alpha
         IN  exhaustive_loop(call, legal, i + 1, max1, alpha1)

\* calculate_best_move over the search with the cutoff removed.
RECURSIVE exhaustive_best_loop(_, _, _, _, _, _)
exhaustive_best_loop(b, legal, player, i, max, max_index) ==
    IF i > Len(legal) THEN max_index
    ELSE LET val == -exhaustive_node(RootCall(b, legal, player, i))
         IN  IF max_index = None \/ Improves(val, max)
             THEN exhaustive_best_loop(b, legal, player, i + 1, Some(val), Some(i))
             ELSE exhaustive_best_loop(b, legal, player, i + 1, max, max_index)

exhaustive_best_move(b, legal, player) ==
    legal[unwrap(exhaustive_best_loop(b, legal, player, 1, None, None))]

\* C2: for a board and a player with a legal move, calculate_best_move returns
\* the move the same search returns with the cutoff removed.
AlphaBetaEquivalence ==
    Returned("calculate_best_move") =>
        unwrap(s_ret) = exhaustive_best_move(s_call.board, s_call.valid_moves, s_call.player)

\* calculate_best_move has returned from a search in which a loop was cut off
\* and in which a player had to pass.
SearchCutAndPassed ==
    /\ Returned("calculate_best_move")
    /\ \E i \in 1 .. Len(s_call.valid_moves) :
           LET nodes == Visited(RootCall(s_call.board, s_call.valid_moves, s_call.player, i))
           IN  /\ \E c \in nodes : IsCutNode(c)
               /\ \E c \in nodes : IsPassNode(c)

\* C5: negamax called with depth > 0 for a player who has no legal move, the
\* pass flag not set, makes exactly one call, on the same board, for the
\* opponent, with depth - 1 and the pass flag set, and returns what it returns.
ForcedPassRecursesOnce ==
    (Returned("negamax") /\ IsPassNode(TheCall)) =>
        LET r == unwrap(s_ret)
        IN  /\ Len(r.calls) = 1
            /\ r.calls[1].board = s_call.board
            /\ r.calls[1].player = opponent(s_call.player)
            /\ r.calls[1].depth = s_call.depth - 1
            /\ r.calls[1].pass_flag = TRUE

\* negamax has returned from a node where the player to move had to pass and
\* the opponent had a legal move.
PassedToOpponent ==
    /\ Returned("negamax")
    /\ IsPassNode(TheCall)
    /\ s_call.depth = MaxDepth
    /\ HasMoves([TheCall EXCEPT !.player = opponent(s_call.player)])

\* The board with the colour of every piece exchanged.
SwapColours(b) ==
    [r \in 1 .. SIZE |->
        [c \in 1 .. SIZE |-> IF b[r][c] = Empty THEN Empty ELSE opponent(b[r][c])]]

\* C6: negamax for a player equals the negation of negamax for the opponent on
\* the same board, with the same depth, pass flag and bounds.
ScoreSymmetry ==
    Returned("negamax") =>
        unwrap(s_ret).value =
            -negamax(s_call.board, opponent(s_call.player), s_call.depth,
                     s_call.pass_flag, s_call.alpha, s_call.beta)

\* C6, amended: negamax for a player equals negamax for the opponent on the
\* board with the colours exchanged, with the same depth, pass flag and bounds.
ColourSymmetry ==
    [][RunNegamax =>
          unwrap(s_ret').value =
              negamax(SwapColours(s_call.board), opponent(s_call.player), s_call.depth,
                      s_call.pass_flag, s_call.alpha, s_call.beta)]_vars

\* negamax has returned from a search of full depth, with a value that is not
\* the negation of the opponent's.
SearchedBothColours ==
    /\ Returned("negamax")
    /\ s_call.depth = MaxDepth
    /\ HasMoves(TheCall)
    /\ unwrap(s_ret).value #
           -negamax(s_call.board, opponent(s_call.player), s_call.depth,
                    s_call.pass_flag, s_call.alpha, s_call.beta)

\* C7: negamax makes no call exactly when depth = 0 or the player to move has
\* no legal move and the pass flag is set, and then it returns the weighted
\* sum of the cells of the player to move; otherwise its result is the result
\* of the call it made for the pass, or the negated result of one of the calls
\* it made for the legal moves.
TerminalConditions ==
    Returned("negamax") =>
        LET r == unwrap(s_ret)
        IN  /\ (r.calls = <<>>) <=> IsLeaf(TheCall)
            /\ IsLeaf(TheCall) =>
                   r.value = calculate_weighted_piece_positions(s_call.board, s_call.player)
            /\ IsPassNode(TheCall) => r.value = negamax_node(r.calls[1]).value
            /\ (s_call.depth > 0 /\ HasMoves(TheCall)) =>
                   \E i \in 1 .. Len(r.calls) : r.value = -(negamax_node(r.calls[i]).value)

\* negamax has returned from a node above the horizon where both players had
\* to pass, on a board the two players score differently.
DoublePassLeaf ==
    /\ Returned("negamax")
    /\ s_call.depth > 0
    /\ IsLeaf(TheCall)
    /\ calculate_weighted_piece_positions(s_call.board, Black)
           # calculate_weighted_piece_positions(s_call.board, White)

\* C8: calculate_best_move returns a candidate whose score is the maximum of
\* the scores of all candidates, and the first one in the list with that score.
RootSelection ==
    Returned("calculate_best_move") =>
        LET legal == s_call.valid_moves
            score == [i \in 1 .. Len(legal) |->
                         RootScore(s_call.board, legal, s_call.player, i)]
        IN  \E i \in 1 .. Len(legal) :
                /\ legal[i] = unwrap(s_ret)
                /\ \A j \in 1 .. Len(legal) : score[j] <= score[i]
                /\ \A j \in 1 .. (i - 1) : score[j] < score[i]

\* calculate_best_move has returned from a root where two candidates share
\* the maximum score.
TiedAtRoot ==
    /\ Returned("calculate_best_move")
    /\ LET legal == s_call.valid_moves
           score == [i \in 1 .. Len(legal) |->
                        RootScore(s_call.board, legal, s_call.player, i)]
       IN  \E i, j \in 1 .. Len(legal) :
               /\ i < j
               /\ score[i] = score[j]
               /\ \A k \in 1 .. Len(legal) : score[k] <= score[i]

(***************************************************************************)
(* Properties of the successor board                                       *)
(***************************************************************************)
\* On board succ the move cell m and the flip cells of m are Taken(p), and
\* every other cell is as it is on board b.
IsSuccessor(succ, b, p, m) ==
    LET flips == find_flip_cells_for_move(b, p, m)
    IN  \A x \in Pos :
            Cell(succ, x[1], x[2]) =
                IF x = m \/ x \in flips THEN p ELSE Cell(b, x[1], x[2])

\* C11: whenever a move is made in the game, the new board is the successor
\* of the board before for a legal move of the player whose turn it was: the
\* move cell and every flip cell are Taken(mover) and every other cell is as
\* before; and for every player and every legal move on the board before, the
\* board apply_move gives and the board get_board_after_move returns are that
\* successor.
MoveEffect ==
    [][\A q \in Player :
           (current_phase = Turn(q) /\ Ply(board') = Ply(board) + 1) =>
               /\ \E m \in Pos : IsLegal(board, q, m) /\ IsSuccessor(board', board, q, m)
               /\ \A p \in Player : \A m \in Pos :
                      IsLegal(board, p, m) =>
                          /\ IsSuccessor(apply_move(board, p, m,
                                                    find_flip_cells_for_move(board, p, m)),
                                         board, p, m)
                          /\ IsSuccessor(get_board_after_move(board, p, m), board, p, m)]_vars

\* A move has been applied in a game, and on the board it left a player has
\* a legal move that flips pieces in more than one direction.
MoveFlipsTwoRuns ==
    /\ tick_outcome = "applied"
    /\ \E p \in Player : \E m \in Pos :
           /\ IsLegal(board, p, m)
           /\ Cardinality({d \in Directions :
                  Sandwich(board, p, m[1] + d[1], m[2] + d[2], d[1], d[2], {}) # {}}) > 1

(***************************************************************************)
(* Properties of the recursion of negamax                                  *)
(***************************************************************************)
\* C12: whenever negamax recurses, for a legal move or for a pass, the call
\* is for the opponent with the window (-beta, -alpha), and the value negamax
\* returns is the negative of the value of one of its calls.
NegamaxConvention ==
    (Returned("negamax") /\ ~IsLeaf(TheCall)) =>
        LET r == unwrap(s_ret)
        IN  /\ \A i \in 1 .. Len(r.calls) :
                   /\ r.calls[i].player = opponent(s_call.player)
                   /\ r.calls[i].alpha = negate(s_call.beta)
            /\ r.calls[1].beta = negate(s_call.alpha)
            /\ \E i \in 1 .. Len(r.calls) : r.value = -(negamax_node(r.calls[i]).value)

(***************************************************************************)
(* Properties of the depth of the search                                   *)
(***************************************************************************)
\* C13: the search calculate_best_move runs for each candidate has the depth
\* the caller supplied (the recursion_depth of the request), so that the
\* plies searched are determined by that depth.
CallerDepth ==
    Returned("calculate_best_move") =>
        \A i \in 1 .. Len(s_call.valid_moves) :
            RootCall(s_call.board, s_call.valid_moves, s_call.player, i).depth = s_call.depth

(***************************************************************************)
(* Properties of the teardown                                              *)
(***************************************************************************)
\* C14: once drop() has closed the request sender, the worker thread ends
\* (after it has answered what was queued or being searched) and join
\* returns, whatever is pending in the two channels.
ShutdownCompletes ==
    (drop_pc = "join") ~> (drop_pc = "dropped" /\ agent_pc = "exited")

\* The game was dropped with a result that nobody read.
DroppedWithUnreadResult ==
    /\ drop_pc = "dropped"
    /\ agent_pc = "exited"
    /\ move_results # <<>>

(***************************************************************************)
(* Properties of reset                                                     *)
(***************************************************************************)
\* The legal opening moves of Black.
OpeningMoves == {<<2, 3>>, <<3, 2>>, <<4, 5>>, <<5, 4>>}

\* C15: after construction and after every reset, until the first move, the
\* board is the canonical start, the phase is Turn(Black) and the cached
\* valid moves are exactly the four legal opening moves of Black.
ResetState ==
    is_board_untouched =>
        /\ board = BoardDefault
        /\ current_phase = Turn(Black)
        /\ Len(valid_moves) = 4
        /\ {valid_moves[i] : i \in 1 .. Len(valid_moves)} = OpeningMoves
        /\ OpeningMoves = {m \in Pos : IsLegal(BoardDefault, Black, m)}

\* A game has been played to its end and reset.
ResetAfterGame ==
    /\ resets > 0
    /\ is_board_untouched
    /\ statistics > 0

(***************************************************************************)
(* Properties of the evaluator                                             *)
(***************************************************************************)
Weight(x) == OTHELLO_WEIGHTS[x[1] + 1][x[2] + 1]

\* The sum of the weights of a set of cells.
RECURSIVE WeightSum(_)
WeightSum(cells) ==
    IF cells = {} THEN 0
    ELSE LET x == CHOOSE y \in cells : TRUE
         IN  Weight(x) + WeightSum(cells \ {x})

Corners == {<<0, 0>>, <<0, SIZE - 1>>, <<SIZE - 1, 0>>, <<SIZE - 1, SIZE - 1>>}

OnEdge(x) == x[1] \in {0, SIZE - 1} \/ x[2] \in {0, SIZE - 1}

Abs(n) == IF n < 0 THEN -n ELSE n

AdjacentToCorner(x) ==
    /\ x \notin Corners
    /\ \E c \in Corners : Abs(x[1] - c[1]) <= 1 /\ Abs(x[2] - c[2]) <= 1

\* calculate_heuristic is the sum of the weights of the cells Taken(player).
HeuristicIsWeightSum ==
    \A p \in Player :
        calculate_heuristic(s_call.board, p) =
            WeightSum({x \in Pos : Cell(s_call.board, x[1], x[2]) = p})

\* The cells next to a corner weigh least.
CornerNeighboursLowest ==
    \A a \in Pos : \A x \in Pos :
        (AdjacentToCorner(a) /\ ~AdjacentToCorner(x)) => Weight(a) <= Weight(x)

\* Corners and edge cells away from the corners weigh at least as much as
\* every interior cell.
EdgesHighest ==
    \A e \in Pos : \A x \in Pos :
        (OnEdge(e) /\ ~AdjacentToCorner(e) /\ ~OnEdge(x)) => Weight(e) >= Weight(x)

\* C16: calculate_heuristic sums the weight table over exactly the cells
\* Taken(player); in the table the corners and the edge cells not next to a
\* corner weigh at least as much as every interior cell, and the cells next
\* to a corner weigh least.
WeightedEvaluation ==
    /\ HeuristicIsWeightSum
    /\ CornerNeighboursLowest
    /\ EdgesHighest

(***************************************************************************)
(* Properties of the turn handover                                         *)
(***************************************************************************)
\* The step is a move of player p: a piece is added to the board of a game
\* in which it is p's turn.
MoveBy(p) ==
    /\ current_phase = Turn(p)
    /\ Ply(board') = Ply(board) + 1

\* C17: after a legal move by p the phase is Turn(opponent) exactly when the
\* opponent has a legal move on the new board, stays Turn(p) exactly when the
\* opponent has none and p has one, and is Win or Tie exactly when neither has.
TurnHandover ==
    [][\A p \in Player :
           MoveBy(p) =>
               LET opp == HasLegalMove(board', opponent(p))
                   own == HasLegalMove(board', p)
               IN  /\ (current_phase' = Turn(opponent(p))) <=> opp
                   /\ (current_phase' = Turn(p)) <=> (~opp /\ own)
                   /\ (current_phase'[1] \in {"Win", "Tie"}) <=> (~opp /\ ~own)]_vars

\* The turn is out of step with the alternation of the colours: after a move
\* the opponent could not move and the mover kept the turn.
TurnKept ==
    \E p \in Player :
        /\ current_phase = Turn(p)
        /\ ~HasLegalMove(board, opponent(p))
        /\ p = (IF Ply(board) % 2 = 0 THEN White ELSE Black)

(***************************************************************************)
(* Properties of the exchange with the worker                              *)
(***************************************************************************)
\* The requests sent whose result has not been consumed by tick_ai: those in
\* the request channel, the one being searched, and the results not yet read.
Outstanding ==
    Len(move_requests) + (IF agent_request = None THEN 0 ELSE 1) + Len(move_results)

\* C18: as long as no assertion has failed, at most one request is
\* outstanding, and one is outstanding exactly when awaiting_ai_move is true,
\* whatever ticks, clicks, resets and setting changes have happened.
OneOutstanding ==
    ~panicked =>
        /\ Outstanding \in {0, 1}
        /\ awaiting_ai_move <=> (Outstanding = 1)

\* A result is still unread after the game it was asked for has been reset.
OutstandingAcrossReset ==
    /\ awaiting_ai_move
    /\ resets > 0
    /\ is_board_untouched
    /\ move_results # <<>>
    /\ Head(move_results).board # board

(***************************************************************************)
(* Properties of the assertions on make_move                               *)
(***************************************************************************)
\* The step is tick_ai(p) receiving a result that is in range, fresh, and a
\* legal move of the snapshot it was computed on.
ReceivesLegalFresh(p) ==
    /\ TickAiReceive(p)
    /\ LET move_result == Head(move_results)
       IN  /\ move_result.next_move[1] < SIZE /\ move_result.next_move[2] < SIZE
           /\ move_result.board = board /\ move_result.player = p
           /\ IsLegal(move_result.board, move_result.player, move_result.next_move)

\* C19: the assert on make_move in tick_ai holds when the result is fresh, in
\* range and a legal move of its snapshot, and the assert on make_move after
\* a click holds when the frame found the cell to be a valid move: in both
\* cases the move is applied.
AssertsHold ==
    [][\A p \in Player :
           /\ ReceivesLegalFresh(p) =>
                  (~panicked' /\ tick_outcome' = "applied" /\ Ply(board') = Ply(board) + 1)
           /\ \A m \in ClickCells(board) :
                  HumanClick(p, m) => (~panicked' /\ Ply(board') = Ply(board) + 1)]_vars

\* The last move of a game was the worker's and passed the assert.
WorkerEndedGame ==
    /\ tick_outcome = "applied"
    /\ ~panicked
    /\ GameOver

(***************************************************************************)
(* Properties of the AI's progress                                         *)
(***************************************************************************)
\* The user has stopped acting, and it is the turn of a player whose AI is
\* enabled, in a game of at most MaxMoves moves so far.
AiToMove ==
    /\ user_pc # "acting"
    /\ Ply(board) <= MaxMoves
    /\ \E p \in Player : current_phase = Turn(p) /\ player_options[p].ai_enabled

\* C20: when it is the turn of a player whose AI is enabled and the user does
\* nothing more, a later tick applies a move for that player, also when an
\* answer to an earlier request is still due.
AiProgress == AiToMove ~> (tick_outcome = "applied")

\* The user went away while a stale answer was due, and the AI has moved.
MovedAfterStale ==
    /\ user_pc = "away_stale"
    /\ tick_outcome = "applied"

(***************************************************************************)
(* Properties of the cached valid moves                                    *)
(***************************************************************************)
\* The cells of a list of moves.
CellsOf(list) == {list[i] : i \in 1 .. Len(list)}

\* C21: when the phase is Turn(p), the cached valid_moves are the legal moves
\* of p on the board, each listed once; when the game is over the cache is
\* empty.
CachedMovesInSync ==
    /\ \A p \in Player :
           current_phase = Turn(p) =>
               /\ CellsOf(valid_moves) = {m \in Pos : IsLegal(board, p, m)}
               /\ Len(valid_moves) = Cardinality(CellsOf(valid_moves))
    /\ GameOver => valid_moves = <<>>

\* The opponent had to pass, and the cache holds the moves of the player who
\* moves again.
CacheAfterPass ==
    /\ valid_moves # <<>>
    /\ ~is_board_untouched
    /\ \E p \in Player :
           /\ current_phase = Turn(p)
           /\ p = (IF Ply(board) % 2 = 0 THEN White ELSE Black)
           /\ \A m \in Pos : ~IsLegal(board, opponent(p), m)

(***************************************************************************)
(* Properties of the length of a game                                      *)
(***************************************************************************)
\* The step is a successful make_move, called by tick_ai or after a click.
MoveMade ==
    \/ \E p \in Player : TickAiReceive(p) /\ tick_outcome' = "applied"
    \/ \E p \in Player : \E m \in ClickCells(board) : HumanClick(p, m) /\ ~panicked'

\* The step fills exactly one empty cell of the board and empties none.
FillsOneCell ==
    /\ Cardinality({x \in Pos : Cell(board, x[1], x[2]) = Empty
                                    /\ Cell(board', x[1], x[2]) # Empty}) = 1
    /\ \A x \in Pos : Cell(board, x[1], x[2]) # Empty => Cell(board', x[1], x[2]) # Empty

\* The most moves a game can have: the cells that are empty at the start.
MostMoves == SIZE * SIZE - 4

\* C22: every successful make_move fills exactly one empty cell and empties
\* none; as long as the phase is a Turn the player to move has a legal move,
\* and at most SIZE * SIZE - 4 moves have been made; the board changes only by
\* a successful move or, once the game is over, by the reset.
GameEnds ==
    [][/\ MoveMade => (~GameOver /\ FillsOneCell)
       /\ \A p \in Player : current_phase = Turn(p) => HasLegalMove(board, p)
       /\ Ply(board) <= MostMoves
       /\ (Ply(board) = MostMoves) => GameOver
       /\ (board' # board) =>
              \/ MoveMade
              \/ GameOver /\ resets' = resets + 1 /\ board' = BoardDefault]_vars

\* A game has been played to its end and the last move was made by a click.
EndedByClick ==
    /\ GameOver
    /\ tick_outcome = "none"
    /\ Ply(board) > 0
    /\ Ply(board) <= MostMoves

(***************************************************************************)
(* Properties of the depth of the recursion                                *)
(***************************************************************************)
\* C23: every call negamax makes, for a move or for a pass, is made from a
\* node of depth at least 1 and with that depth less one, so no depth is below
\* 0; the calls nested below the first are at most its depth; and negamax
\* returns a value.
BoundedRecursion ==
    Returned("negamax") =>
        LET ret == unwrap(s_ret)
        IN  /\ \A e \in ret.edges :
                   /\ e[1] >= 1
                   /\ e[2] = e[1] - 1
                   /\ e[1] <= s_call.depth
            /\ ret.nesting <= s_call.depth
            /\ ret.value \in Int

\* A search has gone as deep as its depth allows, through a pass.
DeepestThroughPass ==
    /\ Returned("negamax")
    /\ s_call.depth = MaxDepth
    /\ unwrap(s_ret).nesting = MaxDepth
    /\ \E c \in Visited(TheCall) : IsPassNode(c)


(***************************************************************************)
(* Properties of the statistics                                            *)
(***************************************************************************)
\* The step ends the game.
GameFinishes == ~GameOver /\ GameOver'

\* At most one datum is added per game: a datum is added only by the step that
\* ends the game, one at a time, and a game that is over stays over until the
\* reset.
OneDatumPerGame ==
    [][/\ statistics' # statistics => (GameFinishes /\ statistics' = statistics + 1)
       /\ (GameOver /\ ~GameOver') => resets' = resets + 1]_vars

\* C24: while the "Take Statistics" option is off, the step that ends a game
\* adds no datum to the statistics; and at most one datum is added per game
\* between two resets.
StatisticsGating ==
    [][/\ (GameFinishes /\ ~should_take_statistics) => statistics' = statistics
       /\ statistics' # statistics => (GameFinishes /\ statistics' = statistics + 1)
       /\ (GameOver /\ ~GameOver') => resets' = resets + 1]_vars

\* A game has ended with the "Take Statistics" option off and a datum taken.
TakenWhileOff ==
    /\ GameOver
    /\ ~should_take_statistics
    /\ statistics = resets + 1

=============================================================================
